---- MODULE Spec2Model ----
(***************************************************************************)
(* CryptoBay Pro 4.1, bot/main_bot.py: the portfolio ledger (load/save of  *)
(* data/portfolio.json, the "+ SYM amt" / "- SYM amt" edit handler, the    *)
(* "EX FROM TO amt" exchange handler) and the background price watcher.    *)
(*                                                                         *)
(* Handlers are coroutines on one asyncio loop.  A handler runs without    *)
(* interruption from one `await` to the next; every action below is one    *)
(* such segment.  load_portfolio, save_portfolio, get_prices_for_symbols   *)
(* and get_btc_overview are plain blocking functions (no await), so they   *)
(* never end a segment.                                                    *)
(*                                                                         *)
(* Amounts are Python floats.  They are modelled as binary floating-point  *)
(* numbers with a Precision-bit significand over a smallest unit (the      *)
(* quantum): the values m * 2^e with m < 2^Precision.  Every arithmetic    *)
(* result is rounded to the nearest such value, ties to even, as IEEE-754  *)
(* does with 53 bits.  Epsilon is the 1e-10 of the edit handler, expressed *)
(* in quanta.                                                              *)
(***************************************************************************)
EXTENDS Integers, Sequences, FiniteSets, TLC

VARIABLES
    file,          \* data/portfolio.json: [kind, data]
    tasks,         \* in-flight message handlers, by slot
    alertEnabled,  \* ALERT_ENABLED
    lastState,     \* price_watcher's last_state dict
    watcher,       \* price_watcher's position and locals
    trail,         \* history: the latest edit messages handled, oldest first
    seen,          \* history: the watcher's observations, oldest first
    joined         \* history: users who subscribed and were not yet observed

vars == <<file, tasks, alertEnabled, lastState, watcher, trail, seen, joined>>
ledgerVars == <<file, tasks, trail>>
watcherVars == <<alertEnabled, lastState, watcher>>

---------------------------------------------------------------------------
(* Bounds of the model *)

\* Width of the significand of the modelled floats.
Precision == 2
\* Number of handler coroutines that can be in flight at once.
NTasks == 2
\* Largest balance, in quanta: exchanges that would exceed it are not sent.
MaxBalance == 4
\* Number of messages the history variable trail keeps in SpecEdits.
MaxTrail == 2
\* Number of observations the history variable seen takes in SpecSequence.
MaxCycles == 5

Users == {1, 2}
Tasks == 1..NTasks

---------------------------------------------------------------------------
(* Floating-point arithmetic *)

RECURSIVE Pow2(_)
Pow2(n) == IF n = 0 THEN 1 ELSE 2 * Pow2(n - 1)

\* The unit in the last place of num/den: the least power of two u with
\* num/den < 2^Precision * u.
RECURSIVE Ulp(_, _, _)
Ulp(num, den, u) ==
    IF num \div (den * u) < Pow2(Precision) THEN u ELSE Ulp(num, den, 2 * u)

\* num/den (num >= 0, den > 0) rounded to the nearest float, ties to even.
RoundRatio(num, den) ==
    LET u == Ulp(num, den, 1)
        D == den * u
        q == num \div D
        r == num % D
    IN  (IF 2 * r < D THEN q
         ELSE IF 2 * r > D THEN q + 1
         ELSE IF q % 2 = 0 THEN q ELSE q + 1) * u

Round(x) == IF x < 0 THEN 0 - RoundRatio(0 - x, 1) ELSE RoundRatio(x, 1)

FAdd(a, b) == Round(a + b)
FSub(a, b) == Round(a - b)
FMul(a, b) == Round(a * b)
FDiv(a, b) == RoundRatio(a, b)

---------------------------------------------------------------------------
(* Configuration *)

\* Keys of SYMBOL_TO_COINGECKO.
SYMBOL_TO_COINGECKO == {"BTC", "ETH", "USDT"}

\* The 1e-10 of handle_portfolio_edit, in quanta.
Epsilon == 2

\* Symbols a message may name: the supported ones and one that is not.
SymbolInputs == SYMBOL_TO_COINGECKO \cup {"DOGE"}

\* Amount tokens matching [0-9\.,]+ : decimal numbers of quanta, and one
\* token float() cannot parse.
AmountTokens == {"0", "1", "2", "1.2.3"}

\* Whether float(amount_str.replace(",", ".")) returns.
Parses(tok) == tok # "1.2.3"

\* The decimal value a token denotes.
Decimal(tok) ==
    CASE tok = "0" -> 0 [] tok = "1" -> 1 [] tok = "2" -> 2 [] OTHER -> 0

\* float(amount_str.replace(",", ".")): the nearest float.
ParseFloat(tok) == Round(Decimal(tok))

---------------------------------------------------------------------------
(* Ledger store *)

EmptyDoc == <<>>

AbsentFile == [kind |-> "absent", data |-> EmptyDoc]
CorruptFile == [kind |-> "corrupt", data |-> EmptyDoc]
Doc(d) == [kind |-> "doc", data |-> d]

\* load_portfolio: the parsed document, or {} when the file is missing or
\* json.load raises.
load_portfolio(f) == IF f.kind = "doc" THEN f.data ELSE EmptyDoc

\* What the disk does to one save_portfolio call.
Disks == {"ok", "open_fails", "write_fails"}

\* save_portfolio: open("w") truncates the file, json.dump writes it; any
\* exception is logged and swallowed.
save_portfolio(f, d, disk) ==
    CASE disk = "ok" -> Doc(d)
      [] disk = "open_fails" -> f
      [] disk = "write_fails" -> CorruptFile

\* data.get(user_id, {"balances": {}}).get("balances", {})
BalancesOf(d, uid) == IF uid \in DOMAIN d THEN d[uid] ELSE <<>>

\* balances.get(sym, 0.0)
Get(b, sym) == IF sym \in DOMAIN b THEN b[sym] ELSE 0

\* balances[sym] = v
Put(b, sym, v) == [s \in DOMAIN b \cup {sym} |-> IF s = sym THEN v ELSE b[s]]

\* balances.pop(sym, None)
Pop(b, sym) == [s \in DOMAIN b \ {sym} |-> b[s]]

\* Line 516 on a mapping that holds the sender alone.
PutUser_Alone(d, uid, b) == [u \in {uid} |-> b]

\* data[user_id] = user
PutUser(d, uid, b) == [u \in DOMAIN d \cup {uid} |-> IF u = uid THEN b ELSE d[u]]

\* The balance a later load reads for (uid, sym).
Bal(f, uid, sym) == Get(BalancesOf(load_portfolio(f), uid), sym)

\* The symbols a later load finds in uid's balance map.
Held(f, uid) == DOMAIN BalancesOf(load_portfolio(f), uid)

---------------------------------------------------------------------------
(* Price feed *)

\* Responses of get_prices_for_symbols for the supported symbols: a map
\* from the symbols it could price to their USD price.  <<>> is the total
\* failure (request error); a partial map omits a symbol.
Market == [s \in SYMBOL_TO_COINGECKO |->
              CASE s = "BTC" -> 3 [] s = "ETH" -> 2 [] s = "USDT" -> 1]

Restrict(m, S) == [s \in S |-> m[s]]

Feeds == {Market, <<>>, Restrict(Market, {"BTC", "USDT"})}

\* get_prices_for_symbols(symbols): only supported symbols are asked for.
get_prices_for_symbols(symbols, feed) ==
    Restrict(feed, DOMAIN feed \cap symbols \cap SYMBOL_TO_COINGECKO)

---------------------------------------------------------------------------
(* handle_portfolio_edit *)

\* Replies are named after the error they report: "BadFormat" (line 435),
\* "InvalidSymbol" (439, 485), "InvalidAmount" (443, 488),
\* "InsufficientFunds" (454, 497), "SameSymbol" (482), "PriceUnavailable"
\* (504); "Updated" (465) and "Exchanged" (519) acknowledge a change.

\* seq without its first element equal to x: str.replace(x, "", 1).
RemoveFirst(seq, x) ==
    IF \E i \in 1..Len(seq) : seq[i] = x
    THEN LET i == CHOOSE i \in 1..Len(seq) :
                    seq[i] = x /\ \A j \in 1..(i - 1) : seq[j] # x
         IN  SubSeq(seq, 1, i - 1) \o SubSeq(seq, i + 1, Len(seq))
    ELSE seq

\* The text of an edit message, as its parts: sign, symbol, amount token.
EditText(sign, sym, tok) == <<sign, sym, tok>>

\* text.replace("+", "", 1).replace("-", "", 1).split(maxsplit=2): the
\* text without its sign, split at whitespace.
EditSplit(text) == RemoveFirst(RemoveFirst(text, "+"), "-")

\* `_, sym, amount_str = ...` needs exactly three parts.
Unpacks3(parts) == Len(parts) = 3

\* Lines 426-465: the result of one edit message on the loaded data:
\* the reply and the data handed to save_portfolio (save is FALSE when the
\* handler returns before saving).
EditResult(d, uid, text) ==
    LET sign == IF text[1] = "+" THEN 1 ELSE -1
        parts == EditSplit(text)
    IN  IF ~Unpacks3(parts) \/ ~Parses(parts[3])
        THEN [reply |-> "BadFormat", save |-> FALSE, data |-> d]
        ELSE
        LET sym == parts[2]
            amount == ParseFloat(parts[3])
            balances == BalancesOf(d, uid)
            current == Get(balances, sym)
            new_amount == FAdd(current, sign * amount)
            abs == IF new_amount < 0 THEN 0 - new_amount ELSE new_amount
            updated == IF abs < Epsilon THEN Pop(balances, sym)
                       ELSE Put(balances, sym, new_amount)
        IN  IF sym \notin SYMBOL_TO_COINGECKO
            THEN [reply |-> "InvalidSymbol", save |-> FALSE, data |-> d]
            ELSE IF amount <= 0
            THEN [reply |-> "InvalidAmount", save |-> FALSE, data |-> d]
            ELSE IF new_amount < 0
            THEN [reply |-> "InsufficientFunds", save |-> FALSE, data |-> d]
            ELSE [reply |-> "Updated", save |-> TRUE,
                  data |-> PutUser(d, uid, updated)]

---------------------------------------------------------------------------
(* handle_exchange *)

\* handle_exchange without the test of line 496.
ExchangeReject_NoFundsCheck(from_sym, to_sym, amount, have, prices) ==
    IF from_sym = to_sym THEN "SameSymbol"
    ELSE IF from_sym \notin SYMBOL_TO_COINGECKO \/ to_sym \notin SYMBOL_TO_COINGECKO
    THEN "InvalidSymbol"
    ELSE IF amount <= 0 THEN "InvalidAmount"
    ELSE IF from_sym \notin DOMAIN prices \/ to_sym \notin DOMAIN prices
    THEN "PriceUnavailable"
    ELSE "none"

\* Lines 481-505: the reply that turns the exchange down, "none" when it
\* goes ahead.
ExchangeReject(from_sym, to_sym, amount, have, prices) ==
    IF from_sym = to_sym THEN "SameSymbol"
    ELSE IF from_sym \notin SYMBOL_TO_COINGECKO \/ to_sym \notin SYMBOL_TO_COINGECKO
    THEN "InvalidSymbol"
    ELSE IF amount <= 0 THEN "InvalidAmount"
    ELSE IF have < amount THEN "InsufficientFunds"
    ELSE IF from_sym \notin DOMAIN prices \/ to_sym \notin DOMAIN prices
    THEN "PriceUnavailable"
    ELSE "none"

\* to_amount with the two prices in each other's place.
ToAmount_Inverted(prices, from_sym, to_sym, amount) ==
    FDiv(FMul(prices[to_sym], amount), prices[from_sym])

\* Lines 507-508: usd_value and to_amount.
ToAmount(prices, from_sym, to_sym, amount) ==
    FDiv(FMul(prices[from_sym], amount), prices[to_sym])

\* Lines 510-512: the source side.
Debited(balances, from_sym, have, amount) ==
    LET left == FSub(have, amount)
    IN  IF left <= 0 THEN Pop(balances, from_sym) ELSE Put(balances, from_sym, left)

\* Line 513 with the amount taken off the destination.
Credited_SignSlip(balances, to_sym, to_amount) ==
    Put(balances, to_sym, FSub(Get(balances, to_sym), to_amount))

\* Line 513: the destination side.
Credited(balances, to_sym, to_amount) ==
    Put(balances, to_sym, FAdd(Get(balances, to_sym), to_amount))

\* Lines 474-519 on the loaded data, given the feed's response.  An amount
\* float() cannot parse raises ValueError at line 479, which nothing
\* catches.
ExchangeResult(d, uid, from_sym, to_sym, tok, feed) ==
    IF ~Parses(tok)
    THEN [reply |-> "ValueError", save |-> FALSE, data |-> d]
    ELSE
    LET amount == ParseFloat(tok)
        balances == BalancesOf(d, uid)
        have == Get(balances, from_sym)
        prices == get_prices_for_symbols({from_sym, to_sym}, feed)
        reject == ExchangeReject(from_sym, to_sym, amount, have, prices)
    IN  IF reject # "none"
        THEN [reply |-> reject, save |-> FALSE, data |-> d]
        ELSE [reply |-> "Exchanged", save |-> TRUE,
              data |-> PutUser(d, uid,
                         Credited(Debited(balances, from_sym, have, amount), to_sym,
                                  ToAmount(prices, from_sym, to_sym, amount)))]

-----
(* handle_portfolio_button *)

\* Lines 344-380: the reply to "my portfolio".
PortfolioReply(f, uid) ==
    IF BalancesOf(load_portfolio(f), uid) = <<>> THEN "NoPortfolio" ELSE "Portfolio"

---------------------------------------------------------------------------
(* Handler coroutines *)

\* pc: "idle"   no handler in this slot
\*     "answer" suspended in the handler's last `await message.answer`
\*     "answer_then_portfolio" suspended in the `await message.answer` of
\*              line 465 or 519; handle_portfolio_button follows
\*     "raised" an exception left the handler
\* handler: the coroutine; uid: message.from_user.id; reply: what the
\* pending message.answer says; msg: the Entry of the message handled.
Idle == [pc |-> "idle", handler |-> "none", uid |-> 0, reply |-> "none", msg |-> <<>>]

InFlight(t) == tasks[t].pc # "idle"

\* The dispatcher starts a handler in the first free slot.
FreeSlot(t) == ~InFlight(t) /\ \A s \in Tasks : s < t => InFlight(s)

Started(handler, uid, res, entry) ==
    [pc |-> CASE res.reply = "ValueError" -> "raised"
              [] res.save -> "answer_then_portfolio"
              [] OTHER -> "answer",
     handler |-> handler, uid |-> uid, reply |-> res.reply, msg |-> entry]

\* What is kept of one message: the words of the message (sign and symbol,
\* or source and destination symbol, then the amount), what the feed and
\* the disk did, the ledger as the handler loaded it (pre) and as it can be
\* loaded once the handler has saved (post), and the first reply.
Entry(uid, a, b, tok, feed, disk, pre, post, reply) ==
    [uid |-> uid, a |-> a, b |-> b, tok |-> tok, feed |-> feed, disk |-> disk,
     pre |-> pre, post |-> post, reply |-> reply]

\* trail keeps the latest `keep` entries.
Logged(entry, keep) ==
    LET all == Append(trail, entry)
    IN  trail' = IF Len(all) > keep THEN Tail(all) ELSE all

\* handle_portfolio_edit up to its first await.
HandleEdit(t, uid, sign, sym, tok, disk, keep) ==
    /\ FreeSlot(t)
    /\ LET text == EditText(sign, sym, tok)
           res == EditResult(load_portfolio(file), uid, text)
           saved == IF res.save THEN save_portfolio(file, res.data, disk) ELSE file
           entry == Entry(uid, sign, sym, tok, <<>>, disk, load_portfolio(file),
                          load_portfolio(saved), res.reply)
       IN  /\ file' = saved
           /\ tasks' = [tasks EXCEPT ![t] = Started("handle_portfolio_edit", uid, res, entry)]
           /\ Logged(entry, keep)
    /\ UNCHANGED <<watcherVars, seen, joined>>

\* The exchanges the model delivers: no balance of the result exceeds
\* MaxBalance, and no stored amount is below the model's quantum (a double
\* has some 300 decimal orders of magnitude below 1e-10, the model has one
\* value).
WithinBound(d) ==
    \A u \in DOMAIN d : \A s \in DOMAIN d[u] : d[u][s] <= MaxBalance /\ d[u][s] # 0

\* handle_exchange up to its first await.
HandleExchange(t, uid, from_sym, to_sym, tok, feed, disk) ==
    /\ FreeSlot(t)
    /\ LET res == ExchangeResult(load_portfolio(file), uid, from_sym, to_sym, tok, feed)
           saved == IF res.save THEN save_portfolio(file, res.data, disk) ELSE file
           entry == Entry(uid, from_sym, to_sym, tok, feed, disk, load_portfolio(file),
                          load_portfolio(saved), res.reply)
       IN  /\ WithinBound(res.data)
           /\ file' = saved
           /\ tasks' = [tasks EXCEPT ![t] = Started("handle_exchange", uid, res, entry)]
    /\ UNCHANGED <<watcherVars, trail, seen, joined>>

\* An `await message.answer(...)` returns: the handler ends, or goes on to
\* handle_portfolio_button and suspends in its answer.
AnswerDelivered(t) ==
    /\ tasks[t].pc \in {"answer", "answer_then_portfolio"}
    /\ tasks' = [tasks EXCEPT ![t] =
                   IF tasks[t].pc = "answer" THEN Idle
                   ELSE [tasks[t] EXCEPT !.pc = "answer",
                                         !.reply = PortfolioReply(file, tasks[t].uid)]]
    /\ UNCHANGED <<file, watcherVars, trail, seen, joined>>

\* The exception that left a handler reaches the dispatcher, which logs it.
ErrorLogged(t) ==
    /\ tasks[t].pc = "raised"
    /\ tasks' = [tasks EXCEPT ![t] = Idle]
    /\ UNCHANGED <<file, watcherVars, trail, seen, joined>>

---------------------------------------------------------------------------
(* handle_alerts_toggle and price_watcher *)

\* ALERT_THRESHOLD, in tenths of a percent (the default "2.0").
ALERT_THRESHOLD == 20

\* 24h changes the feed may report, in tenths of a percent.
Changes == {-30, -20, -19, 1, 19, 20, 31, 35, 36}

\* get_btc_overview's results: None (request failed or empty list), or a
\* dict whose change_24h is a number or None.
Overviews ==
    {[ok |-> FALSE, has_change |-> FALSE, change |-> 0],
     [ok |-> TRUE, has_change |-> FALSE, change |-> 0]}
    \cup {[ok |-> TRUE, has_change |-> TRUE, change |-> c] : c \in Changes}

\* Lines 548-552 without the elif branch.
Classify_NoDown(change) ==
    IF change >= ALERT_THRESHOLD THEN "up" ELSE "normal"

\* Lines 548-552.
Classify(change) ==
    IF change >= ALERT_THRESHOLD THEN "up"
    ELSE IF change <= 0 - ALERT_THRESHOLD THEN "down"
    ELSE "normal"

\* last_state.get(uid)
Prev(ls, uid) == IF uid \in DOMAIN ls THEN ls[uid] ELSE "None"

\* Line 556 without the test for "normal".
ShouldNotify_AnyChange(state, prev) == state # prev

\* Line 556 with an absent previous state taken for the state observed.
ShouldNotify_SilentBaseline(state, prev) ==
    state # "normal" /\ state # prev /\ prev # "None"

\* Line 556.
ShouldNotify(state, prev) == state # "normal" /\ state # prev

\* last_state[uid] = state
SetState(ls, uid, state) ==
    [u \in DOMAIN ls \cup {uid} |-> IF u = uid THEN state ELSE ls[u]]

\* Line 554 as a loop over every known user, subscribed or not.
Orders_Everyone(S) ==
    {q \in [1..Cardinality(Users) -> Users] :
        \A i, j \in 1..Cardinality(Users) : q[i] = q[j] => i = j}

\* The orders in which list(ALERT_ENABLED) may hold the set's members.
Orders(S) ==
    {q \in [1..Cardinality(S) -> S] : \A i, j \in 1..Cardinality(S) : q[i] = q[j] => i = j}

\* The for-loop of lines 554-567 from the head of todo up to the next
\* `await bot.send_message`, or to the end of the list: users that get no
\* message have their state stored on the way.
RECURSIVE RunLoop(_, _, _)
RunLoop(todo, ls, state) ==
    IF todo = <<>> THEN [ls |-> ls, todo |-> <<>>, sending |-> FALSE]
    ELSE IF ShouldNotify(state, Prev(ls, Head(todo)))
    THEN [ls |-> ls, todo |-> todo, sending |-> TRUE]
    ELSE RunLoop(Tail(todo), SetState(ls, Head(todo), state), state)

\* The while-loop without the test of line 544.
NobodySubscribed_Never(S) == FALSE

\* Line 544: `if ALERT_ENABLED:` is false.
NobodySubscribed(S) == S = {}

\* Line 546 as `if btc:` alone, a missing change read as 0.
FetchOk_AnyReply(btc) == btc.ok

\* Line 546: `btc and btc.get("change_24h") is not None`.
FetchOk(btc) == btc.ok /\ btc.has_change

\* The users of list s.
Members(s) == {s[i] : i \in 1..Len(s)}

\* The watcher asleep in asyncio.sleep(wait) after a cycle.  fetch says
\* what the cycle did: "none" (no cycle yet), "skipped" (get_btc_overview
\* was not called), "failed", "ok".  btc is the local of that name, subs is
\* ALERT_ENABLED as the cycle found it, snap the list the cycle iterated,
\* before is last_state as the cycle found it, fresh the users of joined
\* as the cycle found it, sent the users send_message was called for,
\* failed those for whom it raised.
Asleep(w, wait) == [w EXCEPT !.pc = "sleep", !.wait = wait, !.todo = <<>>]

\* seen with the users of the current observation's send_message calls.
Noted(s, sent) ==
    IF s = <<>> THEN s ELSE [s EXCEPT ![Len(s)].sent = sent]

\* The loop of lines 554-567 goes on from the head of todo: the users it
\* passes have their state stored and are no longer in joined.
Continue(w, todo, state, s) ==
    LET r == RunLoop(todo, lastState, state)
        w2 == IF r.sending
              THEN [w EXCEPT !.pc = "send", !.todo = r.todo,
                             !.sent = @ \cup {Head(r.todo)}]
              ELSE Asleep(w, 300)
    IN  /\ lastState' = r.ls
        /\ watcher' = w2
        /\ seen' = Noted(s, w2.sent)
        /\ joined' = joined \ (Members(todo) \ Members(r.todo))

\* asyncio.sleep returns: one pass of the while-loop up to the next await.
\* The observation is appended to seen when record is TRUE.
WatcherCycle(btc, order, record) ==
    /\ watcher.pc = "sleep"
    /\ order \in Orders(alertEnabled)
    /\ LET w == [watcher EXCEPT !.subs = alertEnabled, !.snap = <<>>,
                                !.before = lastState, !.fresh = joined,
                                !.sent = {}, !.failed = {}]
       IN  IF NobodySubscribed(alertEnabled)
           THEN /\ watcher' = Asleep([w EXCEPT !.fetch = "skipped"], 300)
                /\ UNCHANGED <<lastState, seen, joined>>
           ELSE IF ~FetchOk(btc)
           THEN /\ watcher' = Asleep([w EXCEPT !.fetch = "failed", !.btc = btc], 300)
                /\ UNCHANGED <<lastState, seen, joined>>
           ELSE Continue([w EXCEPT !.fetch = "ok", !.btc = btc, !.snap = order,
                                   !.state = Classify(btc.change)],
                         order, Classify(btc.change),
                         IF record
                         THEN Append(seen, [change |-> btc.change, sent |-> {}])
                         ELSE seen)
    /\ UNCHANGED <<alertEnabled, ledgerVars>>

\* Lines 559-566 without the try: an exception of send_message leaves the
\* for-loop and is caught at line 569.
SendDone_Abort(raised) ==
    /\ watcher.pc = "send"
    /\ LET uid == Head(watcher.todo)
           r == RunLoop(Tail(watcher.todo),
                        SetState(lastState, uid, watcher.state), watcher.state)
           w2 == IF r.sending
                 THEN [watcher EXCEPT !.todo = r.todo, !.sent = @ \cup {Head(r.todo)}]
                 ELSE Asleep(watcher, 300)
       IN  IF raised
           THEN /\ watcher' = Asleep([watcher EXCEPT !.failed = @ \cup {uid}], 60)
                /\ UNCHANGED <<lastState, seen, joined>>
           ELSE /\ lastState' = r.ls
                /\ watcher' = w2
                /\ seen' = Noted(seen, w2.sent)
                /\ joined' = joined \ (Members(watcher.todo) \ Members(r.todo))
    /\ UNCHANGED <<alertEnabled, ledgerVars>>

\* `await bot.send_message` returns or raises (the exception is caught and
\* logged); the state is stored and the loop goes on.
SendDone(raised) ==
    /\ watcher.pc = "send"
    /\ LET uid == Head(watcher.todo)
           w == [watcher EXCEPT !.failed = IF raised THEN @ \cup {uid} ELSE @]
           r == RunLoop(Tail(watcher.todo),
                        SetState(lastState, uid, watcher.state), watcher.state)
           w2 == IF r.sending
                 THEN [w EXCEPT !.todo = r.todo, !.sent = @ \cup {Head(r.todo)}]
                 ELSE Asleep(w, 300)
       IN  /\ lastState' = r.ls
           /\ watcher' = w2
           /\ seen' = Noted(seen, w2.sent)
           /\ joined' = joined \ (Members(watcher.todo) \ Members(r.todo))
    /\ UNCHANGED <<alertEnabled, ledgerVars>>

\* handle_alerts_toggle, lines 396-401; the answer it then awaits changes
\* nothing.
AlertsToggle(uid) ==
    /\ alertEnabled' = IF uid \in alertEnabled THEN alertEnabled \ {uid}
                       ELSE alertEnabled \cup {uid}
    /\ joined' = IF uid \in alertEnabled THEN joined ELSE joined \cup {uid}
    /\ UNCHANGED <<lastState, watcher, ledgerVars, seen>>

-----
(* Initial state *)

\* data/portfolio.json as the bot finds it at start-up: missing, or a
\* ledger written earlier whose amounts are all at least Epsilon.
InitialFiles ==
    {AbsentFile,
     Doc([u \in {1} |-> [s \in {"BTC"} |-> 3]]),
     Doc([u \in {2} |-> [s \in {"ETH", "USDT"} |-> IF s = "ETH" THEN 2 ELSE 4]])}

\* price_watcher before its first cycle; btc is not yet bound.
NotStarted ==
    [pc |-> "sleep", wait |-> 0, fetch |-> "none", state |-> "normal",
     btc |-> [ok |-> FALSE, has_change |-> FALSE, change |-> 0],
     subs |-> {}, todo |-> <<>>, snap |-> <<>>, before |-> <<>>, fresh |-> {},
     sent |-> {}, failed |-> {}]

Init ==
    /\ file \in InitialFiles
    /\ tasks = [t \in Tasks |-> Idle]
    /\ trail = <<>>
    /\ alertEnabled = {}
    /\ lastState = <<>>
    /\ watcher = NotStarted
    /\ seen = <<>>
    /\ joined = {}

---------------------------------------------------------------------------
(* Specifications *)

\* No handler is in flight: the next message arrives after the handler of
\* the previous one has returned.
Quiet == \A t \in Tasks : ~InFlight(t)

\* One message at a time, on a disk that takes every write.
Next ==
    \/ Quiet /\ \E t \in Tasks, uid \in Users, sign \in {"+", "-"}, sym \in SymbolInputs,
                   tok \in AmountTokens :
                   HandleEdit(t, uid, sign, sym, tok, "ok", 0)
    \/ Quiet /\ \E t \in Tasks, uid \in Users, from_sym \in SymbolInputs,
                   to_sym \in SymbolInputs, tok \in AmountTokens, feed \in Feeds :
                   HandleExchange(t, uid, from_sym, to_sym, tok, feed, "ok")
    \/ \E t \in Tasks : AnswerDelivered(t)
    \/ \E t \in Tasks : ErrorLogged(t)

Spec == Init /\ [][Next]_vars

\* One message at a time, on a disk that may refuse or cut short a write.
NextFaulty ==
    \/ Quiet /\ \E t \in Tasks, uid \in Users, sign \in {"+", "-"}, sym \in SymbolInputs,
                   tok \in AmountTokens, disk \in Disks :
                   HandleEdit(t, uid, sign, sym, tok, disk, 0)
    \/ Quiet /\ \E t \in Tasks, uid \in Users, from_sym \in SymbolInputs,
                   to_sym \in SymbolInputs, tok \in AmountTokens, feed \in Feeds,
                   disk \in Disks :
                   HandleExchange(t, uid, from_sym, to_sym, tok, feed, disk)
    \/ \E t \in Tasks : AnswerDelivered(t)
    \/ \E t \in Tasks : ErrorLogged(t)

SpecFaulty == Init /\ [][NextFaulty]_vars

\* Edit messages with well-formed amounts, any number of their handlers in
\* flight together.
NextEdits ==
    \/ \E t \in Tasks, uid \in Users, sign \in {"+", "-"}, sym \in {"BTC", "ETH"},
          tok \in {"1", "2"} : HandleEdit(t, uid, sign, sym, tok, "ok", MaxTrail)
    \/ \E t \in Tasks : AnswerDelivered(t)

SpecEdits == Init /\ [][NextEdits]_vars

\* The watcher and the subscription toggle.
NextWatcher ==
    \/ \E btc \in Overviews, order \in Orders(alertEnabled) :
          WatcherCycle(btc, order, FALSE)
    \/ \E raised \in BOOLEAN : SendDone(raised)
    \/ \E uid \in Users : AlertsToggle(uid)

SpecWatcher == Init /\ [][NextWatcher]_vars

\* Two users who both hold amounts, the handlers of their messages in
\* flight together, on a disk that takes every write.
SharedFile ==
    Doc([u \in Users |-> IF u = 1 THEN [s \in {"BTC", "ETH"} |-> 2]
                                  ELSE [s \in {"BTC", "USDT"} |-> 1]])

InitShared ==
    /\ file = SharedFile
    /\ tasks = [t \in Tasks |-> Idle]
    /\ trail = <<>>
    /\ alertEnabled = {}
    /\ lastState = <<>>
    /\ watcher = NotStarted
    /\ seen = <<>>
    /\ joined = {}

NextShared ==
    \/ \E t \in Tasks, uid \in Users, from_sym \in {"BTC", "USDT"} :
          \E to_sym \in {"BTC", "USDT"} \ {from_sym} :
             HandleExchange(t, uid, from_sym, to_sym, "1", Market, "ok")
    \/ \E t \in Tasks, uid \in Users : HandleEdit(t, uid, "+", "BTC", "1", "ok", 0)
    \/ \E t \in Tasks : AnswerDelivered(t)

SpecShared == InitShared /\ [][NextShared]_vars

\* One user subscribes, once, and stays subscribed; the watcher's
\* observations are kept in seen.
SequenceOverviews ==
    {[ok |-> FALSE, has_change |-> FALSE, change |-> 0]}
    \cup {[ok |-> TRUE, has_change |-> TRUE, change |-> c] : c \in {35, 36, -30, 1, 31}}

NextSequence ==
    \/ \E uid \in Users : alertEnabled = {} /\ AlertsToggle(uid)
    \/ \E btc \in SequenceOverviews, order \in Orders(alertEnabled) :
          Len(seen) < MaxCycles /\ WatcherCycle(btc, order, TRUE)
    \/ \E raised \in BOOLEAN : SendDone(raised)

SpecSequence == Init /\ [][NextSequence]_vars

-------------------------------------------------------------------------------------------------------------------------------------------------
(* Properties of the ledger commands *)

\* The messages of the edit handlers, and of the exchange handlers, that
\* are in flight.
EditsInFlight ==
    {tasks[t].msg : t \in {s \in Tasks : tasks[s].handler = "handle_portfolio_edit"}}

ExchangesInFlight ==
    {tasks[t].msg : t \in {s \in Tasks : tasks[s].handler = "handle_exchange"}}

\* Message e is "<sign> SYM amount" with a supported symbol and a positive
\* amount.
ValidEdit(e, sign) ==
    /\ e.a = sign /\ e.b \in SYMBOL_TO_COINGECKO
    /\ Parses(e.tok) /\ ParseFloat(e.tok) > 0

\* The sender's balance of sym before and after message e.
Before(e, sym) == Get(BalancesOf(e.pre, e.uid), sym)
After(e, sym) == Get(BalancesOf(e.post, e.uid), sym)

\* C1: when the latest two edit messages are "+ BTC 1" from the same
\* user and the handlers of both are in flight together, the stored BTC
\* balance of that user is the balance the first of them found plus 1 plus
\* 1: neither credit is lost.
C1_BothCreditsKept ==
    (/\ Len(trail) = 2
     /\ trail[1].uid = trail[2].uid
     /\ \A i \in 1..2 : ValidEdit(trail[i], "+") /\ trail[i].b = "BTC" /\ trail[i].tok = "1"
     /\ \E t1, t2 \in Tasks : /\ t1 # t2
                              /\ tasks[t1].handler = "handle_portfolio_edit"
                              /\ tasks[t2].handler = "handle_portfolio_edit"
                              /\ tasks[t1].msg = trail[1] /\ tasks[t2].msg = trail[2])
    => Bal(file, trail[1].uid, "BTC") = FAdd(FAdd(Before(trail[1], "BTC"), 1), 1)

\* C2: whatever the feed and the disk do, an exchange leaves the
\* persisted balances of its user either as they were or with both sides
\* of the exchange applied: the source lower by the amount and the
\* destination higher by what the amount buys.
C2_ExchangeAllOrNothing ==
    \A e \in ExchangesInFlight :
        \/ BalancesOf(e.post, e.uid) = BalancesOf(e.pre, e.uid)
        \/ /\ Parses(e.tok) /\ e.a \in DOMAIN e.feed /\ e.b \in DOMAIN e.feed
           /\ After(e, e.a) = FSub(Before(e, e.a), ParseFloat(e.tok))
           /\ After(e, e.b) = FAdd(Before(e, e.b),
                                   FDiv(FMul(e.feed[e.a], ParseFloat(e.tok)), e.feed[e.b]))

\* C3: a "+ SYM amount" message with a supported symbol and a positive
\* amount raises the sender's balance of SYM by the amount, from 0 if the
\* symbol was not held.
C3_CreditAdds ==
    \A e \in EditsInFlight :
        ValidEdit(e, "+") => After(e, e.b) = FAdd(Before(e, e.b), ParseFloat(e.tok))

\* C4: a "- SYM amount" message with a supported symbol and a positive
\* amount above the sender's balance is answered with InsufficientFunds and
\* leaves the ledger as it was.
C4_OverdraftRefused ==
    \A e \in EditsInFlight :
        (ValidEdit(e, "-") /\ ParseFloat(e.tok) > Before(e, e.b))
        => e.reply = "InsufficientFunds" /\ e.post = e.pre

ValidExchange(e) ==
    /\ e.a # e.b /\ e.a \in SYMBOL_TO_COINGECKO /\ e.b \in SYMBOL_TO_COINGECKO
    /\ Parses(e.tok) /\ ParseFloat(e.tok) > 0
    /\ Before(e, e.a) >= ParseFloat(e.tok)
    /\ e.a \in DOMAIN e.feed /\ e.b \in DOMAIN e.feed

\* Message e changed nothing but its sender's balances of the symbols in S.
OnlyChanged(e, S) ==
    /\ \A sym \in SymbolInputs \ S : After(e, sym) = Before(e, sym)
    /\ \A u \in Users \ {e.uid} : BalancesOf(e.post, u) = BalancesOf(e.pre, u)

\* C6: an exchange that meets every precondition is carried out: the
\* source balance goes down by the amount, the destination balance goes up
\* by amount * price(from) / price(to), and no other balance changes.
C6_ExchangeArithmetic ==
    \A e \in ExchangesInFlight :
        ValidExchange(e)
        => LET amount == ParseFloat(e.tok)
           IN  /\ e.reply = "Exchanged"
               /\ After(e, e.a) = FSub(Before(e, e.a), amount)
               /\ After(e, e.b) = FAdd(Before(e, e.b),
                                       FDiv(FMul(e.feed[e.a], amount), e.feed[e.b]))
               /\ OnlyChanged(e, {e.a, e.b})

\* An exchange was carried out into a symbol already held, with some of the
\* source left.
C6_Witness ==
    \E e \in ExchangesInFlight :
        /\ ValidExchange(e) /\ e.reply = "Exchanged"
        /\ Before(e, e.b) > 0 /\ After(e, e.a) > 0

\* C7: every stored amount is at least Epsilon: no entry whose amount is
\* below it stays in the ledger.
C7_NoDust ==
    \A u \in Users : \A sym \in Held(file, u) : Bal(file, u, sym) >= Epsilon

\* C8: every stored amount is at least 0.
C8_NonNegative ==
    \A u \in Users : \A sym \in Held(file, u) : Bal(file, u, sym) >= 0

\* An exchange of the whole source balance was carried out and the ledger
\* still holds amounts.
C8_Witness ==
    \E e \in ExchangesInFlight :
        /\ e.reply = "Exchanged" /\ Before(e, e.a) = ParseFloat(e.tok)
        /\ Held(file, e.uid) # {}

\* The error kinds whose condition exchange message e meets.
RejectionsDue(e) ==
    {k \in {"SameSymbol", "InvalidSymbol", "InvalidAmount", "InsufficientFunds",
             "PriceUnavailable"} :
        CASE k = "SameSymbol" -> e.a = e.b
          [] k = "InvalidSymbol" ->
                e.a \notin SYMBOL_TO_COINGECKO \/ e.b \notin SYMBOL_TO_COINGECKO
          [] k = "InvalidAmount" -> ParseFloat(e.tok) <= 0
          [] k = "InsufficientFunds" -> Before(e, e.a) < ParseFloat(e.tok)
          [] k = "PriceUnavailable" -> e.a \notin DOMAIN e.feed \/ e.b \notin DOMAIN e.feed}

\* C9: an exchange whose amount is a number and that has equal symbols,
\* an unsupported symbol, a non-positive amount, too small a source balance
\* or a missing price leaves the ledger as it was and is answered with the
\* error kind of one of the conditions it meets.
C9_RejectedExchange ==
    \A e \in ExchangesInFlight :
        (Parses(e.tok) /\ RejectionsDue(e) # {})
        => e.post = e.pre /\ e.reply \in RejectionsDue(e)

\* Exchanges were turned down for a missing price and for missing funds
\* on a ledger that holds amounts.
C9_Witness ==
    \E e \in ExchangesInFlight :
        /\ e.reply \in {"PriceUnavailable", "InsufficientFunds"}
        /\ RejectionsDue(e) = {e.reply}
        /\ e.pre # <<>>

---------------------------------------------------------------------------
(* Properties of the watcher *)

\* The watcher has finished a cycle in which the fetch succeeded.
CycleDone == watcher.pc = "sleep" /\ watcher.fetch = "ok"

\* C10: in a cycle whose fetch succeeded, a subscriber of the cycle is
\* sent a notification exactly when the state computed is not "normal" and
\* differs from the state stored for that subscriber, and the state computed
\* is stored for every subscriber, notified or not.
C10_NotifyOnChange ==
    CycleDone
    => \A uid \in Members(watcher.snap) :
          /\ uid \in watcher.sent
                <=> (watcher.state # "normal" /\ watcher.state # Prev(watcher.before, uid))
          /\ Prev(lastState, uid) = watcher.state

\* A cycle over two subscribers notified one and not the other.
C10_Witness ==
    /\ CycleDone
    /\ \E u, v \in Members(watcher.snap) : u \in watcher.sent /\ v \notin watcher.sent

\* The changes of the first n observations.
Observed(n) == [i \in 1..n |-> seen[i].change]

\* C11: with one user subscribed from before the first observation, the
\* observations +3.5, +3.6, -3.0, +0.1, +3.1 (threshold 2.0) bring that user
\* a notification at the first, the third and the fifth and at no other.
C11_SequenceAlerts ==
    \A u \in Users :
        (/\ alertEnabled = {u} /\ Len(seen) >= 5
         /\ Observed(5) = <<35, 36, -30, 1, 31>>)
        => {i \in 1..5 : u \in seen[i].sent} = {1, 3, 5}

\* The five observations were made and the fifth was notified.
C11_Witness ==
    \E u \in Users :
        /\ alertEnabled = {u} /\ Len(seen) >= 5
        /\ Observed(5) = <<35, 36, -30, 1, 31>>
        /\ seen[5].sent = {u} /\ watcher.pc = "sleep"

\* The users of the finished cycle for whom no state was stored.
FirstObserved ==
    {uid \in Members(watcher.snap) : Prev(watcher.before, uid) = "None"}

\* C12: in the first cycle that observes a classification for a user
\* with no stored state, the classification is stored for the user and no
\* notification is sent, whatever the classification.
C12_SilentBaseline ==
    CycleDone
    => \A uid \in FirstObserved :
          uid \notin watcher.sent /\ Prev(lastState, uid) = watcher.state

\* C12, amended: in the first cycle that observes a classification for a
\* user with no stored state, the classification is stored for the user, and
\* a notification is sent exactly when the classification is "up" or "down".
C12_FirstObservation ==
    CycleDone
    => \A uid \in FirstObserved :
          /\ uid \in watcher.sent <=> watcher.state \in {"up", "down"}
          /\ Prev(lastState, uid) = watcher.state

\* A user with no stored state was notified of "down" in the first cycle
\* that observed one.
C12_Witness ==
    /\ CycleDone /\ watcher.state = "down"
    /\ \E uid \in FirstObserved : uid \in watcher.sent

\* C13: a user who subscribed since the watcher last stored a state for
\* them (for the first time, or again after unsubscribing) is treated as a
\* user with no stored state: notified exactly when the classification is
\* "up" or "down", whatever was stored before.
C13_ResubscribedIsFresh ==
    CycleDone
    => \A uid \in Members(watcher.snap) \cap watcher.fresh :
          uid \in watcher.sent <=> watcher.state \in {"up", "down"}

\* The classification of the finished cycle is due to uid as a
\* notification.
Due(uid) ==
    watcher.state # "normal" /\ watcher.state # Prev(watcher.before, uid)

\* C14: when send_message raised for some user of a cycle, the cycle
\* still runs to its end: every user of the cycle who was due a notification
\* had send_message called, the state is stored for every user of the cycle,
\* the failing one included, and the watcher sleeps the nominal interval
\* before its next cycle.
C14_FailureContained ==
    (watcher.pc = "sleep" /\ watcher.failed # {})
    => /\ \A uid \in Members(watcher.snap) :
             /\ Due(uid) => uid \in watcher.sent
             /\ Prev(lastState, uid) = watcher.state
       /\ watcher.wait = 300

\* The first delivery of a cycle failed and the second user of the cycle
\* was still sent the notification.
C14_Witness ==
    /\ watcher.pc = "sleep" /\ Len(watcher.snap) = 2
    /\ watcher.failed = {watcher.snap[1]}
    /\ watcher.snap[2] \in watcher.sent

\* The watcher sleeps after a cycle that called get_btc_overview and got
\* no snapshot, or one without a 24h change.
FetchFailed ==
    /\ watcher.pc = "sleep" /\ watcher.subs # {}
    /\ ~(watcher.btc.ok /\ watcher.btc.has_change)

\* C15: a cycle whose fetch fails changes no stored state and sends no
\* notification.
C15_FailedFetchFrame ==
    FetchFailed => lastState = watcher.before /\ watcher.sent = {}

\* The fetch brought a snapshot without a 24h change while "up" was stored
\* for a subscriber.
C15_Witness ==
    /\ FetchFailed /\ watcher.btc.ok
    /\ \E uid \in watcher.subs : Prev(lastState, uid) = "up"

\* C16: the watcher sleeps 60 seconds after a cycle whose fetch failed
\* and 300 seconds after every other cycle.
C16_ErrorInterval ==
    (watcher.pc = "sleep" /\ watcher.fetch # "none")
    => watcher.wait = IF FetchFailed THEN 60 ELSE 300

\* C17: a cycle that finds nobody subscribed does not call the feed,
\* sends no notification and changes no stored state.
C17_EmptySetSkips ==
    (watcher.pc = "sleep" /\ watcher.fetch # "none" /\ watcher.subs = {})
    => /\ watcher.fetch = "skipped"
       /\ watcher.sent = {}
       /\ lastState = watcher.before

\* A cycle found nobody subscribed while states were stored.
C17_Witness ==
    /\ watcher.pc = "sleep" /\ watcher.fetch = "skipped" /\ watcher.subs = {}
    /\ lastState # <<>>

\* C18: whatever the disk does to a save, the file is never left empty
\* or cut short, and what a later load reads is the complete mapping the
\* handler loaded or the complete mapping it saved: its sender's balances
\* with the exchange applied and every other balance as before.
C18_SaveAtomic ==
    /\ file.kind # "corrupt"
    /\ \A e \in ExchangesInFlight :
          \/ e.post = e.pre
          \/ /\ e.reply = "Exchanged" /\ OnlyChanged(e, {e.a, e.b})
             /\ After(e, e.a) = FSub(Before(e, e.a), ParseFloat(e.tok))
             /\ After(e, e.b) = FAdd(Before(e, e.b),
                                     FDiv(FMul(e.feed[e.a], ParseFloat(e.tok)), e.feed[e.b]))

\* The error kinds whose condition edit message e, with an amount that is
\* a number, meets.
EditRejectionsDue(e) ==
    {k \in {"InvalidSymbol", "InvalidAmount", "InsufficientFunds"} :
        CASE k = "InvalidSymbol" -> e.b \notin SYMBOL_TO_COINGECKO
          [] k = "InvalidAmount" -> ParseFloat(e.tok) <= 0
          [] k = "InsufficientFunds" ->
                e.a = "-" /\ ParseFloat(e.tok) > Before(e, e.b)}

\* C19: no exception leaves a handler, and every command that is turned
\* down is answered with its reason: an amount that is not a number with
\* InvalidAmount (for an edit, also the bad-format reply), any other with the
\* error kind of a condition it meets.
C19_RejectionsAnswered ==
    /\ \A t \in Tasks : tasks[t].pc # "raised"
    /\ \A e \in ExchangesInFlight :
          IF Parses(e.tok)
          THEN RejectionsDue(e) # {} => e.reply \in RejectionsDue(e)
          ELSE e.reply = "InvalidAmount"
    /\ \A e \in EditsInFlight :
          IF Parses(e.tok)
          THEN EditRejectionsDue(e) # {} => e.reply \in EditRejectionsDue(e)
          ELSE e.reply \in {"InvalidAmount", "BadFormat"}

\* C20: a handled edit or exchange message, carried out or turned down,
\* with other handlers in flight or not, leaves every other user's balance
\* map as it was and leaves its sender's balances of the symbols it does not
\* name as they were.
C20_OthersUntouched ==
    /\ \A e \in ExchangesInFlight : OnlyChanged(e, {e.a, e.b})
    /\ \A e \in EditsInFlight : OnlyChanged(e, {e.b})

\* Exchanges of two users were carried out with both handlers in flight
\* together, each user holding amounts the other's exchange did not name.
C20_Witness ==
    \E t1, t2 \in Tasks :
        /\ tasks[t1].handler = "handle_exchange" /\ tasks[t2].handler = "handle_exchange"
        /\ tasks[t1].uid # tasks[t2].uid
        /\ tasks[t1].reply = "Exchanged" /\ tasks[t2].reply = "Exchanged"
        /\ BalancesOf(tasks[t2].msg.pre, tasks[t1].uid) # <<>>

\* This step calls bot.send_message: the watcher enters the await of line
\* 560 for the head of its list.
SendBegins ==
    /\ watcher'.pc = "send"
    /\ watcher.pc # "send" \/ watcher'.todo # watcher.todo

\* C21: whenever the watcher calls send_message, the user it sends to is
\* in ALERT_ENABLED at that moment, however the subscription toggle was
\* interleaved with the cycle.
C21_SendsToSubscribedOnly ==
    [][SendBegins => Head(watcher'.todo) \in alertEnabled']_vars

\* C21, amended: whenever the watcher calls send_message, the user it
\* sends to was in ALERT_ENABLED when the cycle began.
C21_SendsToCycleSubscribers ==
    [][SendBegins => Head(watcher'.todo) \in watcher'.subs]_vars

\* The watcher is sending to the second user of its list, who has
\* unsubscribed since the cycle began.
C21_Witness ==
    /\ watcher.pc = "send" /\ Len(watcher.snap) = 2
    /\ Head(watcher.todo) = watcher.snap[2]
    /\ watcher.snap[2] \in watcher.subs \ alertEnabled

====
